---- MODULE Spec2Model ----
(***************************************************************************)
(* Model of app.py: the Streamlit recipe transcriber.                      *)
(*                                                                         *)
(* Text is a sequence of one-token strings (<<"#", " ", "a">>); the empty  *)
(* Python string is <<>>.  The session part models one browser session:    *)
(* session_state, the script run started by a button click, the thread     *)
(* pool of the Submit branch and the blocking synthesis call.              *)
(***************************************************************************)
EXTENDS Integers, Sequences, FiniteSets, TLC

\* ------------------------------------------------------------------ bounds
MaxImages == 2
MaxWorkers == 2
MaxTextLen == 5
MaxReplyLen == 5

\* ------------------------------------------------------------ text helpers
Space == {" ", "\n"}

SetMin(S) == CHOOSE x \in S : \A y \in S : x <= y

SetMax(S) == CHOOSE x \in S : \A y \in S : x >= y

\* str.strip(): drop leading and trailing whitespace
PyStrip(s) ==
    LET keep == {i \in 1..Len(s) : s[i] \notin Space}
    IN  IF keep = {} THEN <<>> ELSE SubSeq(s, SetMin(keep), SetMax(keep))

RECURSIVE PySplitLines(_)
\* str.split('\n'): always at least one line, the empty text gives <<<<>>>>
PySplitLines(s) ==
    LET nl == {i \in 1..Len(s) : s[i] = "\n"}
    IN  IF nl = {} THEN <<s>>
        ELSE <<SubSeq(s, 1, SetMin(nl) - 1)>>
                 \o PySplitLines(SubSeq(s, SetMin(nl) + 1, Len(s)))

RECURSIVE PyJoinLines(_)
\* '\n'.join(lines)
PyJoinLines(lines) ==
    IF lines = <<>> THEN <<>>
    ELSE IF Len(lines) = 1 THEN lines[1]
    ELSE lines[1] \o <<"\n">> \o PyJoinLines(Tail(lines))

\* str.startswith('#')
StartsWithHash(s) == Len(s) > 0 /\ s[1] = "#"

IsNotHash(c) == c # "#"

\* str.replace('#', '')
RemoveHashes(s) == SelectSeq(s, IsNotHash)

AllSeqs(A, n) == UNION {[1..k -> A] : k \in 0..n}

\* --------------------------------------------------------- transcribe_image
\* the dict returned when the remote call answers with `reply`
TranscribeOk(image_name, reply) ==
    [name |-> image_name, text |-> PyStrip(reply)]

\* the dict returned by the except branch
TranscribeFailed(image_name) ==
    [name |-> image_name, text |-> <<>>]

\* ------------------------------------------------------ recipe preparation
Untitled == <<"Untitled Recipe">>

\* variant: the content is joined from every line, the heading included
SubmitRecipe_ContentFromAllLines(transcription) ==
    LET lines == PySplitLines(transcription)
    IN  IF lines # <<>> /\ StartsWithHash(lines[1])
        THEN [title |-> PyStrip(RemoveHashes(lines[1])),
              content |-> PyStrip(PyJoinLines(lines))]
        ELSE [title |-> Untitled, content |-> transcription]

\* the loop body of the Submit branch
SubmitRecipe(transcription) ==
    LET lines == PySplitLines(transcription)
    IN  IF lines # <<>> /\ StartsWithHash(lines[1])
        THEN [title |-> PyStrip(RemoveHashes(lines[1])),
              content |-> PyStrip(PyJoinLines(Tail(lines)))]
        ELSE [title |-> Untitled, content |-> transcription]

\* the loop body of the Regenerate branch
RegenerateRecipe(transcription) ==
    LET lines == PySplitLines(transcription)
    IN  IF lines # <<>> /\ StartsWithHash(lines[1])
        THEN [title |-> PyStrip(RemoveHashes(lines[1])),
              content |-> PyStrip(PyJoinLines(Tail(lines)))]
        ELSE [title |-> Untitled, content |-> transcription]

SubmitRecipes(rows) == [k \in 1..Len(rows) |-> SubmitRecipe(rows[k].text)]

RegenerateRecipes(rows) == [k \in 1..Len(rows) |-> RegenerateRecipe(rows[k].text)]

\* --------------------------------------------- generate_single_page_website
\* the three-backquote fence marker, one token
Fence == "<fence>"

HtmlTags == {"html", "HTML"}

Doctype == "<!DOCTYPE html>"

\* re.search of the fenced-html pattern (DOTALL, IGNORECASE): the start
\* positions at which the pattern can match
MatchStarts(code) ==
    {i \in 1..Len(code) :
        /\ code[i] = Fence
        /\ i + 1 <= Len(code)
        /\ code[i + 1] \in HtmlTags
        /\ \E j \in (i + 2)..Len(code) : code[j] = Fence}

\* group 1 of the leftmost match: the first whitespace run is greedy, the
\* group is lazy and stops at the first position from which optional
\* whitespace and a closing fence match
MatchGroup(code) ==
    LET i == SetMin(MatchStarts(code))
        p == SetMin({k \in (i + 2)..Len(code) : code[k] \notin Space})
        q == SetMin({k \in p..Len(code) :
                       \E j \in k..Len(code) :
                           /\ code[j] = Fence
                           /\ \A m \in k..(j - 1) : code[m] \in Space})
    IN  SubSeq(code, p, q - 1)

\* variant: the fenced block is not looked for
ExtractWebsiteCode_WholeReply(reply) == PyStrip(reply)

\* the value returned when the endpoint answers with `reply`
ExtractWebsiteCode(reply) ==
    LET website_code_ == PyStrip(reply)
    IN  IF MatchStarts(website_code_) # {}
        THEN PyStrip(MatchGroup(website_code_))
        ELSE website_code_

\* the soft warning: no document-type declaration in the returned code
DoctypeWarning(code) == ~ \E i \in 1..Len(code) : code[i] \in {Doctype}

\* the value returned by the except branch
WebsiteCodeFailed == <<>>

\* ------------------------------------------------------------------ inputs
\* file names a user can upload (two uploads may carry the same name)
ImageNames == 1..MaxImages

\* the uploaded_files widget: any list of at most MaxImages files.  Names
\* are opaque, so a list is taken up to renaming: the first file is named 1
\* and a new name is the next unused number.
Uploads ==
    {f \in AllSeqs(ImageNames, MaxImages) :
        \A k \in 1..Len(f) :
            \/ f[k] = 1
            \/ \E j \in 1..(k - 1) : f[j] = f[k] \/ f[j] = f[k] - 1}

\* the text_input widget: cleared or filled
WebsiteNames == {<<>>, <<"My Recipe Book">>}

\* replies of the transcription endpoint
TranscriptionReplies ==
    {<<" ">>, <<"\n", "#", " ", "a", "\n", "\n", "a", " ">>}

\* replies of the synthesis endpoint
SynthesisReplies ==
    {<<" ">>, <<"x", " ">>, <<"x", Fence, "html", "\n", Doctype, "\n", Fence>>}

TextAlphabet == {"#", " ", "\n", "a"}

\* the example of the specification: "# Title\nline1\nline2"
ExampleText == <<"#", " ", "Title", "\n", "line1", "\n", "line2">>

ProbeTexts == AllSeqs(TextAlphabet, MaxTextLen) \cup {ExampleText}

ReplyAlphabet == {Fence, "html", "HTML", " ", "x", Doctype}

ProbeReplies == AllSeqs(ReplyAlphabet, MaxReplyLen)

\* ------------------------------------------------------------------- state
VARIABLES
    transcriptions,   \* st.session_state.transcriptions
    website_code,     \* st.session_state.website_code
    pc,               \* position of the script run: idle, transcribing, synthesizing
    branch,           \* what started the current (or last) run
    website_name,     \* the website name read by the run
    uploaded,         \* the uploaded_files list read by a Submit run
    images,           \* the names of the images list built by the Submit branch
    future,           \* per image: pending, running, done, yielded
    outcome,          \* per image: the dict its future holds, once done
    answer,           \* per image: what the endpoint did (raised, or its reply)
    apiCalls,         \* per image: remote transcription calls made in this run
    results,          \* the results list of the Submit branch
    yieldOrder,       \* the images in the order as_completed yielded them
    recipes,          \* the recipes handed to generate_single_page_website
    synthCalls,       \* remote synthesis calls made in this run
    synthAnswer,      \* none, raised, or replied: what the synthesis call did
    lastBatch,        \* the results list stored by the last transcribing Submit
    tx_reply,         \* probe: one reply of the transcription endpoint
    tx_text,          \* probe: <<text>> once transcribe_image has returned
    rc_submit,        \* probe: <<recipe>> built by the Submit loop
    rc_regen,         \* probe: <<recipe>> built by the Regenerate loop
    sy_reply,         \* probe: one reply of the synthesis endpoint
    sy_code,          \* probe: <<code>> once generate_single_page_website returned
    sy_warn           \* probe: the doctype warning was shown

sessionVars ==
    <<transcriptions, website_code, pc, branch, website_name, uploaded, images,
      future, outcome, answer, apiCalls, results, yieldOrder, recipes,
      synthCalls, synthAnswer, lastBatch>>

extractVars == <<tx_reply, tx_text, rc_submit, rc_regen>>

synthVars == <<sy_reply, sy_code, sy_warn>>

vars == <<sessionVars, extractVars, synthVars>>

NoAnswer == [raised |-> FALSE, reply |-> <<>>, seen |-> FALSE]

NoOutcome == <<>>

\* session_state initialisation at the top of main()
SessionInit ==
    /\ transcriptions = <<>>
    /\ website_code = <<>>
    /\ pc = "idle"
    /\ branch = "none"
    /\ website_name = <<>>
    /\ uploaded = <<>>
    /\ images = <<>>
    /\ future = <<>>
    /\ outcome = <<>>
    /\ answer = <<>>
    /\ apiCalls = <<>>
    /\ results = <<>>
    /\ yieldOrder = <<>>
    /\ recipes = <<>>
    /\ synthCalls = 0
    /\ synthAnswer = "none"
    /\ lastBatch = <<>>

ExtractIdle ==
    /\ tx_reply = <<>>
    /\ tx_text = <<>>
    /\ rc_submit = <<>>
    /\ rc_regen = <<>>

SynthIdle ==
    /\ sy_reply = <<>>
    /\ sy_code = <<>>
    /\ sy_warn = FALSE

Init == SessionInit /\ ExtractIdle /\ SynthIdle

\* -------------------------------------------------------- the Submit branch
\* a run starts: the locals of the previous run are gone
FreshRun ==
    /\ images' = <<>>
    /\ future' = <<>>
    /\ outcome' = <<>>
    /\ answer' = <<>>
    /\ apiCalls' = <<>>
    /\ results' = <<>>
    /\ yieldOrder' = <<>>
    /\ recipes' = <<>>
    /\ synthCalls' = 0
    /\ synthAnswer' = "none"

\* Submit clicked: the images list is built and every task is submitted
\* to the pool, or a warning is shown when files or name are missing
ClickSubmit(uploaded_files, name) ==
    /\ pc = "idle"
    /\ branch' = "submit"
    /\ website_name' = name
    /\ uploaded' = uploaded_files
    /\ IF uploaded_files # <<>> /\ name # <<>>
       THEN /\ images' = uploaded_files
            /\ future' = [i \in 1..Len(uploaded_files) |-> "pending"]
            /\ outcome' = [i \in 1..Len(uploaded_files) |-> NoOutcome]
            /\ answer' = [i \in 1..Len(uploaded_files) |-> NoAnswer]
            /\ apiCalls' = [i \in 1..Len(uploaded_files) |-> 0]
            /\ results' = <<>>
            /\ yieldOrder' = <<>>
            /\ recipes' = <<>>
            /\ synthCalls' = 0
            /\ synthAnswer' = "none"
            /\ pc' = "transcribing"
       ELSE /\ FreshRun
            /\ pc' = "idle"
    /\ UNCHANGED <<transcriptions, website_code, lastBatch>>
    /\ UNCHANGED <<extractVars, synthVars>>

Running == {i \in 1..Len(future) : future[i] = "running"}

\* a pool worker takes the oldest queued task and makes the remote call
StartTask(i) ==
    /\ pc = "transcribing"
    /\ future[i] = "pending"
    /\ \A j \in 1..(i - 1) : future[j] # "pending"
    /\ Cardinality(Running) < MaxWorkers
    /\ future' = [future EXCEPT ![i] = "running"]
    /\ apiCalls' = [apiCalls EXCEPT ![i] = @ + 1]
    /\ UNCHANGED <<transcriptions, website_code, pc, branch, website_name,
                   uploaded, images, outcome, answer, results, yieldOrder, recipes,
                   synthCalls, synthAnswer, lastBatch>>
    /\ UNCHANGED <<extractVars, synthVars>>

\* the remote call answers: transcribe_image returns the trimmed text
TaskReturns(i, reply) ==
    /\ pc = "transcribing"
    /\ future[i] = "running"
    /\ future' = [future EXCEPT ![i] = "done"]
    /\ outcome' = [outcome EXCEPT ![i] = <<TranscribeOk(images[i], reply)>>]
    /\ answer' = [answer EXCEPT
                    ![i] = [raised |-> FALSE, reply |-> reply, seen |-> TRUE]]
    /\ UNCHANGED <<transcriptions, website_code, pc, branch, website_name,
                   uploaded, images, apiCalls, results, yieldOrder, recipes, synthCalls,
                   synthAnswer, lastBatch>>
    /\ UNCHANGED <<extractVars, synthVars>>

\* variant: the exception escapes transcribe_image and future.result()
\* re-raises it in the main thread, which ends the run
TaskRaises_Propagates(i) ==
    /\ pc = "transcribing"
    /\ future[i] = "running"
    /\ future' = [future EXCEPT ![i] = "done"]
    /\ answer' = [answer EXCEPT
                    ![i] = [raised |-> TRUE, reply |-> <<>>, seen |-> TRUE]]
    /\ pc' = "idle"
    /\ UNCHANGED <<transcriptions, website_code, branch, website_name,
                   uploaded, images, outcome, apiCalls, results, yieldOrder,
                   recipes, synthCalls, synthAnswer, lastBatch>>
    /\ UNCHANGED <<extractVars, synthVars>>

\* variant: a failed call is queued again
TaskRaises_Retries(i) ==
    /\ pc = "transcribing"
    /\ future[i] = "running"
    /\ future' = [future EXCEPT ![i] = "pending"]
    /\ answer' = [answer EXCEPT
                    ![i] = [raised |-> TRUE, reply |-> <<>>, seen |-> TRUE]]
    /\ pc' = pc
    /\ UNCHANGED <<transcriptions, website_code, branch, website_name,
                   uploaded, images, outcome, apiCalls, results, yieldOrder,
                   recipes, synthCalls, synthAnswer, lastBatch>>
    /\ UNCHANGED <<extractVars, synthVars>>

\* the remote call raises: the except branch of transcribe_image returns
\* (st.error, called off the script thread, shows nothing and does not raise)
TaskRaises(i) ==
    /\ pc = "transcribing"
    /\ future[i] = "running"
    /\ future' = [future EXCEPT ![i] = "done"]
    /\ outcome' = [outcome EXCEPT ![i] = <<TranscribeFailed(images[i])>>]
    /\ answer' = [answer EXCEPT
                    ![i] = [raised |-> TRUE, reply |-> <<>>, seen |-> TRUE]]
    /\ UNCHANGED <<transcriptions, website_code, pc, branch, website_name,
                   uploaded, images, apiCalls, results, yieldOrder, recipes, synthCalls,
                   synthAnswer, lastBatch>>
    /\ UNCHANGED <<extractVars, synthVars>>

\* variant: a result with no text is left out
AppendResult_SkipsEmpty(rs, res) ==
    IF res.text = <<>> THEN rs ELSE Append(rs, res)

\* results.append(res)
AppendResult(rs, res) == Append(rs, res)

\* as_completed yields a finished future and the main thread appends it
YieldCompleted(i) ==
    /\ pc = "transcribing"
    /\ future[i] = "done"
    /\ future' = [future EXCEPT ![i] = "yielded"]
    /\ results' = AppendResult(results, outcome[i][1])
    /\ yieldOrder' = Append(yieldOrder, i)
    /\ UNCHANGED <<transcriptions, website_code, pc, branch, website_name,
                   uploaded, images, outcome, answer, apiCalls, recipes, synthCalls,
                   synthAnswer, lastBatch>>
    /\ UNCHANGED <<extractVars, synthVars>>

\* variant: the loop is left after the first yielded future
PoolJoined_AnyYielded == \E i \in 1..Len(future) : future[i] = "yielded"

\* as_completed is exhausted and the executor has shut down
PoolJoined == \A i \in 1..Len(future) : future[i] = "yielded"

\* the pool has joined: the results are stored, the recipes are built and
\* the synthesis call is made
StoreAndSynthesize ==
    /\ pc = "transcribing"
    /\ PoolJoined
    /\ transcriptions' = results
    /\ lastBatch' = results
    /\ recipes' = SubmitRecipes(results)
    /\ synthCalls' = synthCalls + 1
    /\ pc' = "synthesizing"
    /\ UNCHANGED <<website_code, branch, website_name, uploaded, images, future,
                   outcome, answer, apiCalls, results, yieldOrder, synthAnswer>>
    /\ UNCHANGED <<extractVars, synthVars>>

\* variant: the returned code is stored without the emptiness test
KeepOrStore_Always(old, code) == code

\* if website_code: st.session_state.website_code = website_code
KeepOrStore(old, code) == IF code # <<>> THEN code ELSE old

\* the synthesis call of the Submit branch answers
SubmitSynthesisReturns(reply) ==
    /\ pc = "synthesizing"
    /\ branch = "submit"
    /\ website_code' = KeepOrStore(website_code, ExtractWebsiteCode(reply))
    /\ synthAnswer' = "replied"
    /\ pc' = "idle"
    /\ UNCHANGED <<transcriptions, branch, website_name, uploaded, images, future,
                   outcome, answer, apiCalls, results, yieldOrder, recipes,
                   synthCalls, lastBatch>>
    /\ UNCHANGED <<extractVars, synthVars>>

\* the synthesis call of the Submit branch raises
SubmitSynthesisRaises ==
    /\ pc = "synthesizing"
    /\ branch = "submit"
    /\ website_code' = KeepOrStore(website_code, WebsiteCodeFailed)
    /\ synthAnswer' = "raised"
    /\ pc' = "idle"
    /\ UNCHANGED <<transcriptions, branch, website_name, uploaded, images, future,
                   outcome, answer, apiCalls, results, yieldOrder, recipes,
                   synthCalls, lastBatch>>
    /\ UNCHANGED <<extractVars, synthVars>>

\* ---------------------------------------------------- the Regenerate branch
\* variant: the website name is not tested
ClickRegenerate_IgnoresName(name) ==
    /\ pc = "idle"
    /\ branch' = "regenerate"
    /\ website_name' = name
    /\ uploaded' = <<>>
    /\ images' = <<>>
    /\ future' = <<>>
    /\ outcome' = <<>>
    /\ answer' = <<>>
    /\ apiCalls' = <<>>
    /\ results' = <<>>
    /\ yieldOrder' = <<>>
    /\ synthAnswer' = "none"
    /\ IF transcriptions # <<>>
       THEN /\ recipes' = RegenerateRecipes(transcriptions)
            /\ synthCalls' = 1
            /\ pc' = "synthesizing"
       ELSE /\ recipes' = <<>>
            /\ synthCalls' = 0
            /\ pc' = "idle"
    /\ UNCHANGED <<transcriptions, website_code, lastBatch>>
    /\ UNCHANGED <<extractVars, synthVars>>

\* Regenerate clicked: the recipes are rebuilt from session_state and the
\* synthesis call is made, or a warning is shown
ClickRegenerate(name) ==
    /\ pc = "idle"
    /\ branch' = "regenerate"
    /\ website_name' = name
    /\ uploaded' = <<>>
    /\ images' = <<>>
    /\ future' = <<>>
    /\ outcome' = <<>>
    /\ answer' = <<>>
    /\ apiCalls' = <<>>
    /\ results' = <<>>
    /\ yieldOrder' = <<>>
    /\ synthAnswer' = "none"
    /\ IF transcriptions # <<>> /\ name # <<>>
       THEN /\ recipes' = RegenerateRecipes(transcriptions)
            /\ synthCalls' = 1
            /\ pc' = "synthesizing"
       ELSE /\ recipes' = <<>>
            /\ synthCalls' = 0
            /\ pc' = "idle"
    /\ UNCHANGED <<transcriptions, website_code, lastBatch>>
    /\ UNCHANGED <<extractVars, synthVars>>

\* the synthesis call of the Regenerate branch answers
RegenerateSynthesisReturns(reply) ==
    /\ pc = "synthesizing"
    /\ branch = "regenerate"
    /\ website_code' = KeepOrStore(website_code, ExtractWebsiteCode(reply))
    /\ synthAnswer' = "replied"
    /\ pc' = "idle"
    /\ UNCHANGED <<transcriptions, branch, website_name, uploaded, images, future,
                   outcome, answer, apiCalls, results, yieldOrder, recipes,
                   synthCalls, lastBatch>>
    /\ UNCHANGED <<extractVars, synthVars>>

\* the synthesis call of the Regenerate branch raises
RegenerateSynthesisRaises ==
    /\ pc = "synthesizing"
    /\ branch = "regenerate"
    /\ website_code' = KeepOrStore(website_code, WebsiteCodeFailed)
    /\ synthAnswer' = "raised"
    /\ pc' = "idle"
    /\ UNCHANGED <<transcriptions, branch, website_name, uploaded, images, future,
                   outcome, answer, apiCalls, results, yieldOrder, recipes,
                   synthCalls, lastBatch>>
    /\ UNCHANGED <<extractVars, synthVars>>

\* a rerun with no button clicked: the stored website is rendered again
PlainRerun(name) ==
    /\ pc = "idle"
    /\ branch' = "rerun"
    /\ website_name' = name
    /\ uploaded' = <<>>
    /\ FreshRun
    /\ UNCHANGED <<transcriptions, website_code, pc, lastBatch>>
    /\ UNCHANGED <<extractVars, synthVars>>

Next ==
    \/ \E f \in Uploads, n \in WebsiteNames : ClickSubmit(f, n)
    \/ \E i \in 1..Len(future) : StartTask(i)
    \/ \E i \in 1..Len(future), r \in TranscriptionReplies : TaskReturns(i, r)
    \/ \E i \in 1..Len(future) : TaskRaises(i)
    \/ \E i \in 1..Len(future) : YieldCompleted(i)
    \/ StoreAndSynthesize
    \/ \E r \in SynthesisReplies : SubmitSynthesisReturns(r)
    \/ SubmitSynthesisRaises
    \/ \E n \in WebsiteNames : ClickRegenerate(n)
    \/ \E r \in SynthesisReplies : RegenerateSynthesisReturns(r)
    \/ RegenerateSynthesisRaises
    \/ \E n \in WebsiteNames : PlainRerun(n)

Spec == Init /\ [][Next]_vars

\* ------------------------------------------- transcription to recipe, alone
\* one reply of the endpoint is taken through transcribe_image and then
\* through the recipe loop of each branch
ExtractInit ==
    /\ SessionInit
    /\ SynthIdle
    /\ tx_reply \in ProbeTexts
    /\ tx_text = <<>>
    /\ rc_submit = <<>>
    /\ rc_regen = <<>>

ProbeTranscribeReturns ==
    /\ tx_text = <<>>
    /\ tx_text' = <<TranscribeOk(1, tx_reply).text>>
    /\ UNCHANGED <<tx_reply, rc_submit, rc_regen>>
    /\ UNCHANGED <<sessionVars, synthVars>>

ProbeTranscribeRaises ==
    /\ tx_text = <<>>
    /\ tx_text' = <<TranscribeFailed(1).text>>
    /\ UNCHANGED <<tx_reply, rc_submit, rc_regen>>
    /\ UNCHANGED <<sessionVars, synthVars>>

ProbeSubmitRecipe ==
    /\ tx_text # <<>>
    /\ rc_submit = <<>>
    /\ rc_submit' = <<SubmitRecipe(tx_text[1])>>
    /\ UNCHANGED <<tx_reply, tx_text, rc_regen>>
    /\ UNCHANGED <<sessionVars, synthVars>>

ProbeRegenerateRecipe ==
    /\ tx_text # <<>>
    /\ rc_regen = <<>>
    /\ rc_regen' = <<RegenerateRecipe(tx_text[1])>>
    /\ UNCHANGED <<tx_reply, tx_text, rc_submit>>
    /\ UNCHANGED <<sessionVars, synthVars>>

ExtractNext ==
    \/ ProbeTranscribeReturns
    \/ ProbeTranscribeRaises
    \/ ProbeSubmitRecipe
    \/ ProbeRegenerateRecipe

SpecExtract == ExtractInit /\ [][ExtractNext]_vars

\* ------------------------------------ generate_single_page_website, alone
SynthInit ==
    /\ SessionInit
    /\ ExtractIdle
    /\ sy_reply \in ProbeReplies
    /\ sy_code = <<>>
    /\ sy_warn = FALSE

ProbeGenerateReturns ==
    /\ sy_code = <<>>
    /\ sy_code' = <<ExtractWebsiteCode(sy_reply)>>
    /\ sy_warn' = DoctypeWarning(ExtractWebsiteCode(sy_reply))
    /\ UNCHANGED sy_reply
    /\ UNCHANGED <<sessionVars, extractVars>>

ProbeGenerateRaises ==
    /\ sy_code = <<>>
    /\ sy_code' = <<WebsiteCodeFailed>>
    /\ sy_warn' = FALSE
    /\ sy_reply' = <<>>
    /\ UNCHANGED <<sessionVars, extractVars>>

SynthNext ==
    \/ ProbeGenerateReturns
    \/ ProbeGenerateRaises

SpecSynth == SynthInit /\ [][SynthNext]_vars

\* ============================================================== properties
\* a Submit run that built a non-empty images list
SubmitRan == branch = "submit" /\ images # <<>>

\* ... and whose pool has joined (the run is past the with-block)
Joined == SubmitRan /\ (pc # "transcribing" \/ PoolJoined)

DistinctNames ==
    \A i, j \in 1..Len(images) : images[i] = images[j] => i = j

Occurrences(seq, x) == Cardinality({k \in 1..Len(seq) : seq[k] = x})

ResultNames == [k \in 1..Len(results) |-> results[k].name]

\* C1: once the pool has joined, a batch of N images with pairwise distinct
\* names has exactly N results and every submitted name is the name of
\* exactly one result, whatever the completion order and outcomes were.
C1_Bijection ==
    (Joined /\ DistinctNames) =>
        /\ Len(results) = Len(images)
        /\ \A i \in 1..Len(images) : Occurrences(ResultNames, images[i]) = 1
        /\ \A k \in 1..Len(results) : Occurrences(images, results[k].name) = 1

C1_Witness ==
    /\ Joined
    /\ DistinctNames
    /\ Len(images) >= 2
    /\ yieldOrder[1] # 1
    /\ \E i \in 1..Len(images) : answer[i].raised
    /\ \E i \in 1..Len(images) : ~answer[i].raised

\* C2: failure isolation.  Once the pool has joined, the batch has N
\* results, one per image, and the result of every image whose call
\* answered is (its name, its trimmed reply), whichever other calls raised.
C2_FailureIsolation ==
    Joined =>
        /\ Len(results) = Len(images)
        /\ Len(yieldOrder) = Len(images)
        /\ \A i \in 1..Len(images) : Occurrences(yieldOrder, i) = 1
        /\ \A k \in 1..Len(results) :
              k <= Len(yieldOrder) =>
                  /\ results[k].name = images[yieldOrder[k]]
                  /\ ~answer[yieldOrder[k]].raised =>
                        results[k].text = PyStrip(answer[yieldOrder[k]].reply)

C2_Witness ==
    /\ Joined
    /\ pc = "idle"
    /\ Len(images) >= 2
    /\ \E i, j \in 1..Len(images) :
          /\ answer[i].raised
          /\ ~answer[j].raised
          /\ PyStrip(answer[j].reply) # <<>>
          /\ PyStrip(answer[j].reply) # answer[j].reply
          /\ \E k \in 1..Len(results) :
                yieldOrder[k] = j /\ results[k].text = PyStrip(answer[j].reply)

\* C3: every result of a call that raised differs from every result a call
\* that answered can give for the same image name, and no image whose call
\* raised is missing from the results.
C3_FailedDistinguishable ==
    /\ \A k \in 1..Len(results) :
          answer[yieldOrder[k]].raised =>
              \A r \in TranscriptionReplies :
                  results[k] # TranscribeOk(images[yieldOrder[k]], r)
    /\ Joined =>
          \A i \in 1..Len(images) :
              answer[i].raised => Occurrences(yieldOrder, i) = 1

\* C4: within a Submit the synthesis call is made at most once, and while it
\* is in flight or finished no transcription task is pending or running.
C4_SynthesisAfterBatch ==
    branch = "submit" =>
        /\ synthCalls <= 1
        /\ (synthCalls > 0 \/ pc = "synthesizing" \/ synthAnswer # "none") =>
              /\ Len(future) = Len(images)
              /\ \A i \in 1..Len(future) : future[i] \in {"done", "yielded"}

C4_Witness ==
    /\ branch = "submit"
    /\ pc = "synthesizing"
    /\ synthCalls = 1
    /\ Len(images) >= 2
    /\ \E i \in 1..Len(images) : answer[i].raised

\* C5: a step in which the synthesis call raises leaves
\* session_state.transcriptions and session_state.website_code as they
\* were, and transcriptions is then the full result list of the last
\* transcribed batch.
C5_SynthesisFailureFrame ==
    [][(pc = "synthesizing" /\ synthAnswer' = "raised") =>
          /\ transcriptions' = transcriptions
          /\ website_code' = website_code
          /\ transcriptions' = lastBatch'
          /\ transcriptions' # <<>>
          /\ branch = "submit" =>
                /\ transcriptions' = results'
                /\ Len(transcriptions') = Len(images')]_vars

C5_Witness ==
    /\ pc = "idle"
    /\ synthAnswer = "raised"
    /\ website_code # <<>>
    /\ Len(transcriptions) >= 2

\* C6: the title of every recipe built from a transcription text is not
\* empty, in the Submit loop and in the Regenerate loop.
C6_TitleNeverEmpty ==
    /\ rc_submit # <<>> => rc_submit[1].title # <<>>
    /\ rc_regen # <<>> => rc_regen[1].title # <<>>

\* the algorithm as specified, over the first newline of the text
NewlineAt(text) == {i \in 1..Len(text) : text[i] = "\n"}

HeadLine(text) ==
    IF NewlineAt(text) = {} THEN text
    ELSE SubSeq(text, 1, SetMin(NewlineAt(text)) - 1)

Remainder(text) ==
    IF NewlineAt(text) = {} THEN <<>>
    ELSE SubSeq(text, SetMin(NewlineAt(text)) + 1, Len(text))

SpecifiedRecipe(text) ==
    IF StartsWithHash(PyStrip(HeadLine(text)))
    THEN [title |-> PyStrip(RemoveHashes(HeadLine(text))),
          content |-> Remainder(text)]
    ELSE [title |-> Untitled, content |-> text]

AmendedRecipe(text) ==
    IF StartsWithHash(PyStrip(HeadLine(text)))
    THEN [title |-> PyStrip(RemoveHashes(HeadLine(text))),
          content |-> PyStrip(Remainder(text))]
    ELSE [title |-> Untitled, content |-> text]

ExampleRecipe ==
    [title |-> <<"Title">>, content |-> <<"line1", "\n", "line2">>]

\* C7 as stated: the pair built by either loop is the specified one, with
\* the content being the remaining lines re-joined with newline.
C7_AsSpecified ==
    /\ rc_submit # <<>> => rc_submit[1] = SpecifiedRecipe(tx_text[1])
    /\ rc_regen # <<>> => rc_regen[1] = SpecifiedRecipe(tx_text[1])

\* C7 amended: the pair built by either loop is the specified one except
\* that the content is the remaining lines re-joined with newline and then
\* trimmed; the example text gives ("Title", "line1\nline2"); both loops
\* build the same pair.
C7_ContentTrimmed ==
    /\ rc_submit # <<>> => rc_submit[1] = AmendedRecipe(tx_text[1])
    /\ rc_regen # <<>> => rc_regen[1] = AmendedRecipe(tx_text[1])
    /\ (rc_submit # <<>> /\ tx_text[1] = ExampleText) =>
          rc_submit[1] = ExampleRecipe
    /\ (rc_submit # <<>> /\ rc_regen # <<>>) => rc_submit = rc_regen

C7_Witness ==
    /\ tx_text = << <<"#", "a", "\n", "\n", "a">> >>
    /\ rc_submit = <<[title |-> <<"a">>, content |-> <<"a">>]>>
    /\ rc_regen = rc_submit

\* the fenced block tagged as HTML, as specified
HtmlOpenings(reply) ==
    {i \in 1..Len(reply) :
        /\ reply[i] = Fence
        /\ i < Len(reply)
        /\ reply[i + 1] \in HtmlTags
        /\ \E j \in (i + 2)..Len(reply) : reply[j] = Fence}

HasHtmlBlock(reply) == HtmlOpenings(reply) # {}

FirstBlockInterior(reply) ==
    LET open == SetMin(HtmlOpenings(reply))
        close == SetMin({j \in (open + 2)..Len(reply) : reply[j] = Fence})
    IN  SubSeq(reply, open + 2, close - 1)

NoFenceMarkers(reply) == \A i \in 1..Len(reply) : reply[i] # Fence

\* C8 as stated: the returned payload is the interior of the first fenced
\* HTML block when there is one, and the trimmed reply when the reply has
\* no fence marker.
C8_AsSpecified ==
    sy_code # <<>> =>
        /\ HasHtmlBlock(sy_reply) => sy_code[1] = FirstBlockInterior(sy_reply)
        /\ NoFenceMarkers(sy_reply) => sy_code[1] = PyStrip(sy_reply)

\* C8 amended: the returned payload is the interior of the first fenced
\* HTML block trimmed of leading and trailing whitespace (no fence marker
\* is part of it) when there is one, and the trimmed reply when the reply
\* has no fence marker; this is so whether or not the doctype warning is
\* shown.
C8_InteriorTrimmed ==
    sy_code # <<>> =>
        /\ HasHtmlBlock(sy_reply) =>
              /\ sy_code[1] = PyStrip(FirstBlockInterior(sy_reply))
              /\ NoFenceMarkers(sy_code[1])
        /\ NoFenceMarkers(sy_reply) => sy_code[1] = PyStrip(sy_reply)

C8_Witness ==
    /\ sy_code # <<>>
    /\ sy_warn
    /\ HasHtmlBlock(sy_reply)
    /\ sy_code[1] # <<>>
    /\ sy_code[1] # FirstBlockInterior(sy_reply)

\* C9: no retries.  In a Submit the endpoint is called once for every image
\* whose task has started and never more, so N times once the pool has
\* joined; a call that raised gives exactly one result, the failed one.
C9_NoRetries ==
    branch = "submit" =>
        /\ \A i \in 1..Len(apiCalls) :
              apiCalls[i] = (IF future[i] = "pending" THEN 0 ELSE 1)
        /\ Joined => \A i \in 1..Len(images) : apiCalls[i] = 1
        /\ \A i \in 1..Len(answer) :
              answer[i].raised =>
                  /\ Occurrences(yieldOrder, i) <= 1
                  /\ Joined => Occurrences(yieldOrder, i) = 1
                  /\ \A k \in 1..Len(yieldOrder) :
                        yieldOrder[k] = i =>
                            results[k] = TranscribeFailed(images[i])

C9_Witness ==
    /\ Joined
    /\ pc = "idle"
    /\ Len(images) >= 2
    /\ \A i \in 1..Len(images) : apiCalls[i] = 1
    /\ \E i \in 1..Len(images) : answer[i].raised

\* what a run has called, by the button that started it
RunCalls ==
    /\ branch = "regenerate" =>
          /\ apiCalls = <<>>
          /\ future = <<>>
          /\ transcriptions = lastBatch
          /\ synthCalls =
                (IF transcriptions # <<>> /\ website_name # <<>> THEN 1 ELSE 0)
          /\ synthCalls = 1 => recipes = RegenerateRecipes(lastBatch)
          /\ synthCalls = 0 => pc = "idle"
    /\ (branch = "submit" /\ (uploaded = <<>> \/ website_name = <<>>)) =>
          /\ apiCalls = <<>>
          /\ future = <<>>
          /\ synthCalls = 0
          /\ pc = "idle"

\* C10: a Regenerate makes no transcription call; it makes one synthesis
\* call, with the recipes of the result list stored by the last transcribing
\* Submit, when transcriptions and name are non-empty, and none otherwise;
\* a Submit without files or without a name makes no remote call; a run
\* that makes no remote call leaves transcriptions and website_code alone,
\* and a Regenerate never changes transcriptions.
C10_RegenerateAndNoOps ==
    /\ []RunCalls
    /\ [][/\ (pc = "idle" /\ pc' = "idle") =>
                /\ transcriptions' = transcriptions
                /\ website_code' = website_code
          /\ branch' = "regenerate" => transcriptions' = transcriptions]_vars

C10_Witness ==
    /\ branch = "regenerate"
    /\ pc = "idle"
    /\ synthAnswer = "replied"
    /\ synthCalls = 1
    /\ Len(lastBatch) >= 2
    /\ recipes = RegenerateRecipes(lastBatch)
    /\ website_code # <<>>

====
